---------------------------- MODULE Spec2Model ----------------------------
(***************************************************************************)
(* A model of calculator.py: a three-process pipeline (UserData ->         *)
(* IncomeTaxCalculator -> IncomeTaxExporter) joined by two                 *)
(* multiprocessing queues, and the salary arithmetic the worker applies.   *)
(*                                                                         *)
(* Arithmetic.  Python computes the amounts in binary floating point and   *)
(* prints them with '{:.2f}'.  Here every amount is held exactly:          *)
(*   - incomes and the JiShuL/JiShuH bounds are whole currency units,      *)
(*   - the insurance rates are thousandths (0.105 is 105),                 *)
(*   - the tax rates of the table are hundredths (0.45 is 45),             *)
(*   - an insurance amount is a number of thousandths of a unit,           *)
(*   - an amount that goes through the tax rate is a Money record          *)
(*     [c, f]: c cents plus f/1000 of a cent, 0 <= f < 1000.               *)
(* '{:.2f}' rounds to whole cents.  Where the exact amount lies exactly    *)
(* half way between two cents the binary value Python holds lies a hair    *)
(* above or below, so the printed cent goes either way; fpTie holds, per   *)
(* printed field, the way it goes in this run.  A printed amount is        *)
(* modelled by the number of cents it denotes.                             *)
(***************************************************************************)
EXTENDS Integers, Sequences, FiniteSets, TLC

VARIABLES
    args,            \* Args.options: whether -C was given, and its value
    config_file,     \* the file at args.config_path: DEFAULT and the sections
    config,          \* Config.config: the selected profile, key -> text
    fpTie,           \* which way '{:.2f}' prints an exact half cent, per field
    clock,           \* datetime.now(), in seconds since the start
    userdata_file,   \* the lines of args.userdata_path, each split at ','
    srcPc,           \* UserData process: position
    srcData,         \* UserData.run: the list _read_users_data returned
    srcIdx,          \* UserData.run: index of the next item to put
    userdata_queue,  \* [buf, pipe]: items buffered in the putter, items in the pipe
    calcPc,          \* IncomeTaxCalculator process: position
    held,            \* IncomeTaxCalculator.run: (employee_id, income) just got
    result,          \* IncomeTaxCalculator.run: the row calculate returned
    export_queue,    \* [buf, pipe] of result rows
    expPc,           \* IncomeTaxExporter process: position
    export_file,     \* rows written to args.export_path
    mainPc,          \* main process: position
    exitcode,        \* exit code of each process, -1 while it runs
    errors           \* the fatal errors raised so far

vars == <<args, config_file, config, fpTie, clock, userdata_file, srcPc, srcData, srcIdx,
          userdata_queue, calcPc, held, result, export_queue, expPc,
          export_file, mainPc, exitcode, errors>>

-----------------------------------------------------------------------------
(* Bounds of the model *)

MaxLines == 3        \* longest input file
PipeCap == 1         \* items the OS pipe under a queue holds before a write blocks
MaxClock == 1        \* latest clock reading
MaxIncomeK == 18     \* the incomes tried include the multiples of 5000 up to 5000 * MaxIncomeK

-----------------------------------------------------------------------------
(* Program constants *)

INCOME_TAX_START_POINT == 3500

\* the table with the quick subtractor of the 35000 bracket mistyped
INCOME_TAX_QUICK_LOOKUP_TABLE_typo ==
    << [start_point |-> 80000, tax_rate |-> 45, quick_subtractor |-> 13505],
       [start_point |-> 55000, tax_rate |-> 35, quick_subtractor |-> 5505],
       [start_point |-> 35000, tax_rate |-> 30, quick_subtractor |-> 2775],
       [start_point |-> 9000,  tax_rate |-> 25, quick_subtractor |-> 1005],
       [start_point |-> 4500,  tax_rate |-> 20, quick_subtractor |-> 555],
       [start_point |-> 1500,  tax_rate |-> 10, quick_subtractor |-> 105],
       [start_point |-> 0,     tax_rate |-> 3,  quick_subtractor |-> 0] >>

\* the table with the quick subtractor of the 9000 bracket too small by 50
INCOME_TAX_QUICK_LOOKUP_TABLE_jump ==
    << [start_point |-> 80000, tax_rate |-> 45, quick_subtractor |-> 13505],
       [start_point |-> 55000, tax_rate |-> 35, quick_subtractor |-> 5505],
       [start_point |-> 35000, tax_rate |-> 30, quick_subtractor |-> 2755],
       [start_point |-> 9000,  tax_rate |-> 25, quick_subtractor |-> 955],
       [start_point |-> 4500,  tax_rate |-> 20, quick_subtractor |-> 555],
       [start_point |-> 1500,  tax_rate |-> 10, quick_subtractor |-> 105],
       [start_point |-> 0,     tax_rate |-> 3,  quick_subtractor |-> 0] >>

\* tax_rate in hundredths
INCOME_TAX_QUICK_LOOKUP_TABLE ==
    << [start_point |-> 80000, tax_rate |-> 45, quick_subtractor |-> 13505],
       [start_point |-> 55000, tax_rate |-> 35, quick_subtractor |-> 5505],
       [start_point |-> 35000, tax_rate |-> 30, quick_subtractor |-> 2755],
       [start_point |-> 9000,  tax_rate |-> 25, quick_subtractor |-> 1005],
       [start_point |-> 4500,  tax_rate |-> 20, quick_subtractor |-> 555],
       [start_point |-> 1500,  tax_rate |-> 10, quick_subtractor |-> 105],
       [start_point |-> 0,     tax_rate |-> 3,  quick_subtractor |-> 0] >>

RateKeys == <<"YangLao", "YiLiao", "ShiYe", "GongShang", "ShengYu", "GongJiJin">>

ConfigKeys == {"JiShuL", "JiShuH"} \cup {RateKeys[i] : i \in 1..Len(RateKeys)}

-----------------------------------------------------------------------------
(* Text to number conversions *)

\* float(text) for the texts a configuration value takes here; a text outside
\* the domain raises ValueError.  Bounds in whole units, rates in thousandths.
FloatValue ==
    [t \in {"0", "3000", "20000", "2193", "16446", "100000",
            "0.08", "0.02", "0.005", "0.06", "0.2"} |->
        CASE t = "0"      -> 0
          [] t = "3000"   -> 3000
          [] t = "20000"  -> 20000
          [] t = "2193"   -> 2193
          [] t = "16446"  -> 16446
          [] t = "100000" -> 100000
          [] t = "0.08"   -> 80
          [] t = "0.02"   -> 20
          [] t = "0.005"  -> 5
          [] t = "0.06"   -> 60
          [] t = "0.2"    -> 200]

\* int(text) for the income texts of the input lines; a text outside the
\* domain raises ValueError.
IntValue ==
    [t \in {"2000", "10000", "50000"} |->
        CASE t = "2000"  -> 2000
          [] t = "10000" -> 10000
          [] t = "50000" -> 50000]

-----------------------------------------------------------------------------
(* Config *)

\* text.upper() for the city and section names that occur here
Upper ==
    [t \in {"", "beijing", "BEIJING", "Chengdu", "CHENGDU", "shanghai"} |->
        CASE t = ""         -> ""
          [] t = "beijing"  -> "BEIJING"
          [] t = "BEIJING"  -> "BEIJING"
          [] t = "Chengdu"  -> "CHENGDU"
          [] t = "CHENGDU"  -> "CHENGDU"
          [] t = "shanghai" -> "SHANGHAI"]

\* config[name]: the keys of the section, and behind them those of DEFAULT
SectionProxy(file, name) ==
    [k \in (DOMAIN file.sections[name]) \cup (DOMAIN file.DEFAULT) |->
        IF k \in DOMAIN file.sections[name]
        THEN file.sections[name][k]
        ELSE file.DEFAULT[k]]

\* Config._read_config: the section named by the upper-cased city when a
\* non-empty city is given and that name is a section of the file, else DEFAULT
_read_config(a, file) ==
    IF a.has_C /\ a.city # "" /\ Upper[a.city] \in DOMAIN file.sections
    THEN SectionProxy(file, Upper[a.city])
    ELSE file.DEFAULT

Ok(v) == [ok |-> TRUE, val |-> v]
ParameterError == [ok |-> FALSE, val |-> 0]

\* Config._get_config: float(self.config[key]), or 'Parameter Error' and exit
\* on KeyError / ValueError
GetConfig(key) ==
    IF key \in DOMAIN config /\ config[key] \in DOMAIN FloatValue
    THEN Ok(FloatValue[config[key]])
    ELSE ParameterError

social_insurance_baseline_low == GetConfig("JiShuL")

social_insurance_baseline_high == GetConfig("JiShuH")

RECURSIVE SumRates(_)
SumRates(i) ==
    IF i > Len(RateKeys) THEN Ok(0)
    ELSE LET g == GetConfig(RateKeys[i])
             rest == SumRates(i + 1)
         IN  IF g.ok /\ rest.ok THEN Ok(g.val + rest.val) ELSE ParameterError

social_insurance_total_rate == SumRates(1)

-----------------------------------------------------------------------------
(* Amounts *)

\* an amount of m thousandths of a unit, as Money
MoneyOfMilli(m) == [c |-> m \div 10, f |-> (m % 10) * 100]

\* x - y
MoneySub(x, y) ==
    LET d == x.f - y.f
    IN  [c |-> x.c - y.c + (d \div 1000), f |-> d % 1000]

\* '{:.2f}'.format(m): the cents printed for the amount m in the given field
Format2(m, field) ==
    IF m.f > 500 \/ (m.f = 500 /\ fpTie[field]) THEN m.c + 1 ELSE m.c

Fields == {"social_insurance_money", "tax", "remain"}

-----------------------------------------------------------------------------
(* IncomeTaxCalculator: the arithmetic *)

\* calc_social_insurance_money without the cap: an income above JiShuH pays
\* on the whole income
calc_social_insurance_money_uncapped(income) ==
    LET low  == social_insurance_baseline_low
        high == social_insurance_baseline_high
        rate == social_insurance_total_rate
    IN  IF ~low.ok THEN ParameterError
        ELSE IF income < low.val
             THEN IF rate.ok THEN Ok(low.val * rate.val) ELSE ParameterError
        ELSE IF ~high.ok THEN ParameterError
        ELSE IF rate.ok THEN Ok(income * rate.val) ELSE ParameterError

\* calc_social_insurance_money(income), in thousandths of a unit.  The
\* configuration keys are read when the comparison or product that uses them
\* is evaluated, in the order of the code.
calc_social_insurance_money(income) ==
    LET low  == social_insurance_baseline_low
        high == social_insurance_baseline_high
        rate == social_insurance_total_rate
    IN  IF ~low.ok THEN ParameterError
        ELSE IF income < low.val
             THEN IF rate.ok THEN Ok(low.val * rate.val) ELSE ParameterError
        ELSE IF ~high.ok THEN ParameterError
        ELSE IF income > high.val
             THEN IF rate.ok THEN Ok(high.val * rate.val) ELSE ParameterError
        ELSE IF rate.ok THEN Ok(income * rate.val) ELSE ParameterError

\* real_income = income - social_insurance_money, in thousandths
RealIncome(income, insurance) == income * 1000 - insurance

\* taxable_part = real_income - INCOME_TAX_START_POINT, in thousandths
TaxablePart(real_income) == real_income - INCOME_TAX_START_POINT * 1000

\* the table scan that falls back to the lowest bracket when no item matches
RECURSIVE LookupFrom_fallback(_, _)
LookupFrom_fallback(taxable_part, i) ==
    IF i > Len(INCOME_TAX_QUICK_LOOKUP_TABLE) THEN Len(INCOME_TAX_QUICK_LOOKUP_TABLE)
    ELSE IF taxable_part > INCOME_TAX_QUICK_LOOKUP_TABLE[i].start_point * 1000
         THEN i
         ELSE LookupFrom_fallback(taxable_part, i + 1)

\* the table scan with >= in place of >
RECURSIVE LookupFrom_inclusive(_, _)
LookupFrom_inclusive(taxable_part, i) ==
    IF i > Len(INCOME_TAX_QUICK_LOOKUP_TABLE) THEN 0
    ELSE IF taxable_part >= INCOME_TAX_QUICK_LOOKUP_TABLE[i].start_point * 1000
         THEN i
         ELSE LookupFrom_inclusive(taxable_part, i + 1)

\* the first item of the table, scanned from the top, with
\* taxable_part > item.start_point; 0 when there is none
RECURSIVE LookupFrom(_, _)
LookupFrom(taxable_part, i) ==
    IF i > Len(INCOME_TAX_QUICK_LOOKUP_TABLE) THEN 0
    ELSE IF taxable_part > INCOME_TAX_QUICK_LOOKUP_TABLE[i].start_point * 1000
         THEN i
         ELSE LookupFrom(taxable_part, i + 1)

\* taxable_part * item.tax_rate - item.quick_subtractor, as Money
TaxOf(taxable_part, item) ==
    LET a == taxable_part \div 1000
        b == taxable_part % 1000
        p == b * item.tax_rate
    IN  [c |-> a * item.tax_rate - item.quick_subtractor * 100 + (p \div 1000),
         f |-> p % 1000]

\* calc_income_tax_and_remain that takes the taxable part from the income
\* before insurance
calc_income_tax_and_remain_gross(income) ==
    LET ins == calc_social_insurance_money(income)
    IN  IF ~ins.ok THEN ParameterError
        ELSE
          LET real_income  == RealIncome(income, ins.val)
              taxable_part == TaxablePart(income * 1000)
              i            == LookupFrom(taxable_part, 1)
          IN  IF i > 0
              THEN LET tax == TaxOf(taxable_part, INCOME_TAX_QUICK_LOOKUP_TABLE[i])
                   IN  Ok([tax    |-> Format2(tax, "tax"),
                           remain |-> Format2(MoneySub(MoneyOfMilli(real_income), tax),
                                              "remain")])
              ELSE Ok([tax    |-> 0,
                       remain |-> Format2(MoneyOfMilli(real_income), "remain")])

\* calc_income_tax_and_remain(income): the printed (tax, remain), in cents
calc_income_tax_and_remain(income) ==
    LET ins == calc_social_insurance_money(income)
    IN  IF ~ins.ok THEN ParameterError
        ELSE
          LET real_income  == RealIncome(income, ins.val)
              taxable_part == TaxablePart(real_income)
              i            == LookupFrom(taxable_part, 1)
          IN  IF i > 0
              THEN LET tax == TaxOf(taxable_part, INCOME_TAX_QUICK_LOOKUP_TABLE[i])
                   IN  Ok([tax    |-> Format2(tax, "tax"),
                           remain |-> Format2(MoneySub(MoneyOfMilli(real_income), tax),
                                              "remain")])
              ELSE Ok([tax    |-> 0,
                       remain |-> Format2(MoneyOfMilli(real_income), "remain")])

\* calculate that carries the remain of the previous row into the next one
calculate_carry(employee_id, income, now) ==
    LET ins == calc_social_insurance_money(income)
        tr  == calc_income_tax_and_remain(income)
        carried == IF result # <<>> /\ result.ok THEN result.val.remain ELSE 0
    IN  IF ~ins.ok \/ ~tr.ok THEN ParameterError
        ELSE Ok([employee_id            |-> employee_id,
                 income                 |-> income,
                 social_insurance_money |-> Format2(MoneyOfMilli(ins.val),
                                                    "social_insurance_money"),
                 tax                    |-> tr.val.tax,
                 remain                 |-> tr.val.remain + carried,
                 time                   |-> now])

\* calculate(employee_id, income) at clock reading now: the result row
calculate(employee_id, income, now) ==
    LET ins == calc_social_insurance_money(income)
        tr  == calc_income_tax_and_remain(income)
    IN  IF ~ins.ok \/ ~tr.ok THEN ParameterError
        ELSE Ok([employee_id            |-> employee_id,
                 income                 |-> income,
                 social_insurance_money |-> Format2(MoneyOfMilli(ins.val),
                                                    "social_insurance_money"),
                 tax                    |-> tr.val.tax,
                 remain                 |-> tr.val.remain,
                 time                   |-> now])

-----------------------------------------------------------------------------
(* UserData: reading the input *)

\* _read_users_data that stops at a bad line and returns the records read
\* before it
RECURSIVE ReadFrom_partial(_, _, _)
ReadFrom_partial(lines, i, acc) ==
    IF i > Len(lines) THEN [ok |-> TRUE, val |-> acc, err |-> "", code |-> 0]
    ELSE IF Len(lines[i]) # 2 \/ lines[i][2] \notin DOMAIN IntValue
         THEN [ok |-> TRUE, val |-> acc, err |-> "", code |-> 0]
    ELSE ReadFrom_partial(lines, i + 1,
                          Append(acc, <<lines[i][1], IntValue[lines[i][2]]>>))

\* _read_users_data over the lines from the i-th on, acc being the userdata
\* list so far.  A line is the list of its comma-separated fields.  A line
\* that has not two fields raises an uncaught ValueError at the unpacking
\* (traceback, exit code 1); an income that is not an integer prints
\* 'Parameter Error' and calls exit() (exit code 0).
RECURSIVE ReadFrom(_, _, _)
ReadFrom(lines, i, acc) ==
    IF i > Len(lines) THEN [ok |-> TRUE, val |-> acc, err |-> "", code |-> 0]
    ELSE IF Len(lines[i]) # 2
         THEN [ok |-> FALSE, val |-> <<>>, err |-> "unpack", code |-> 1]
    ELSE IF lines[i][2] \notin DOMAIN IntValue
         THEN [ok |-> FALSE, val |-> <<>>, err |-> "income", code |-> 0]
    ELSE ReadFrom(lines, i + 1, Append(acc, <<lines[i][1], IntValue[lines[i][2]]>>))

_read_users_data(lines) == ReadFrom(lines, 1, <<>>)

-----------------------------------------------------------------------------
(* Inputs *)

Profile(low, high, r1, r2, r3, r4, r5, r6) ==
    [k \in ConfigKeys |->
        CASE k = "JiShuL"    -> low
          [] k = "JiShuH"    -> high
          [] k = "YangLao"   -> r1
          [] k = "YiLiao"    -> r2
          [] k = "ShiYe"     -> r3
          [] k = "GongShang" -> r4
          [] k = "ShengYu"   -> r5
          [] k = "GongJiJin" -> r6]

\* the profile p without the key k
Without(p, k) == [x \in (DOMAIN p) \ {k} |-> p[x]]

StandardProfile == Profile("3000", "20000", "0.08", "0.02", "0.005", "0", "0", "0")

\* profiles of the pipeline runs: a good one, one without JiShuL, one whose
\* JiShuH is not a number
PipelineProfiles ==
    { StandardProfile,
      Without(StandardProfile, "JiShuL"),
      [StandardProfile EXCEPT !["JiShuH"] = "abc"] }

\* profiles the arithmetic is tried with
CalcProfiles ==
    { StandardProfile,
      Profile("2193", "16446", "0.08", "0.02", "0.005", "0", "0", "0.06"),
      Profile("0", "100000", "0", "0", "0", "0", "0", "0"),
      Profile("3000", "20000", "0.2", "0", "0", "0", "0", "0"),
      Profile("3000", "3000", "0.08", "0.02", "0.005", "0", "0", "0"),
      Profile("20000", "3000", "0.08", "0.02", "0.005", "0", "0", "0"),
      Without(StandardProfile, "JiShuL"),
      Without(StandardProfile, "JiShuH"),
      [StandardProfile EXCEPT !["ShiYe"] = "abc"] }

\* no -C option, and -C with a value
NoCity == [has_C |-> FALSE, city |-> ""]
City(name) == [has_C |-> TRUE, city |-> name]

\* a configuration file with a DEFAULT section only
DefaultOnly(p) == [DEFAULT |-> p, sections |-> [n \in {} |-> p]]

\* a configuration file with a section BEIJING and a section Chengdu
CityFile ==
    [DEFAULT  |-> StandardProfile,
     sections |-> [n \in {"BEIJING", "Chengdu"} |->
                     IF n = "BEIJING"
                     THEN [k \in {"JiShuL", "JiShuH", "GongJiJin"} |->
                             CASE k = "JiShuL"    -> "2193"
                               [] k = "JiShuH"    -> "16446"
                               [] k = "GongJiJin" -> "0.06"]
                     ELSE [k \in {"YangLao"} |-> "0.2"]]]

\* the command lines and configuration files of the pipeline runs
PipelineRuns ==
    { [args |-> NoCity, config_file |-> DefaultOnly(p)] : p \in PipelineProfiles }
    \cup { [args |-> City("beijing"), config_file |-> CityFile] }

\* the command lines and configuration files the arithmetic is tried with
CalcRuns ==
    { [args |-> NoCity, config_file |-> DefaultOnly(p)] : p \in CalcProfiles }
    \cup { [args |-> a, config_file |-> CityFile] :
              a \in {NoCity} \cup { City(n) : n \in DOMAIN Upper } }

\* the lines an input file is made of: two good ones, one whose income is
\* not an integer, one with a single field
Lines == { <<"a", "2000">>, <<"b", "10000">>, <<"a", "x">>, <<"b">> }

RECURSIVE SeqsUpTo(_, _)
SeqsUpTo(S, n) ==
    IF n = 0 THEN { <<>> }
    ELSE LET shorter == SeqsUpTo(S, n - 1)
         IN  shorter \cup { Append(q, x) : q \in {r \in shorter : Len(r) = n - 1}, x \in S }

\* the incomes the arithmetic is tried with: a grid, the values around the
\* insurance bounds and the bracket bounds (shifted by the exemption), the
\* incomes of the worked scenarios and a few that leave fractions of a cent
CalcIncomes ==
    { 5000 * k : k \in 0..MaxIncomeK }
    \cup { b + d : b \in {2193, 3000, 16446, 20000, 3500, 5000, 8000, 12500,
                         38500, 58500, 83500},
                   d \in {-1, 0, 1} }
    \cup { 2000, 10000, 50000, 3001, 10001, 12345, 23457 }

Processes == {"userdata", "calculator", "exporter", "main"}

EmptyQueue == [buf |-> <<>>, pipe |-> <<>>]

-----------------------------------------------------------------------------
(* The state after the three processes are started *)

Init ==
    /\ \E run \in PipelineRuns :
         /\ args = run.args
         /\ config_file = run.config_file
    /\ config = _read_config(args, config_file)
    /\ fpTie \in [Fields -> BOOLEAN]
    /\ clock = 0
    /\ userdata_file \in SeqsUpTo(Lines, MaxLines)
    /\ srcPc = "read"
    /\ srcData = <<>>
    /\ srcIdx = 1
    /\ userdata_queue = EmptyQueue
    /\ calcPc = "get"
    /\ held = <<>>
    /\ result = <<>>
    /\ export_queue = EmptyQueue
    /\ expPc = "get"
    /\ export_file = <<>>
    /\ mainPc = "join_userdata"
    /\ exitcode = [p \in Processes |-> -1]
    /\ errors = {}

-----------------------------------------------------------------------------
(* multiprocessing.Queue *)

\* put(item) that places the item ahead of the items already buffered
QueuePut_front(q, item) == [q EXCEPT !.buf = <<item>> \o @]

\* put(item): the item joins the buffer of the putting process
QueuePut(q, item) == [q EXCEPT !.buf = Append(@, item)]

\* get(timeout=1) when an item is in the pipe: the item it returns
QueueFront(q) == Head(q.pipe)

\* get(timeout=1) when an item is in the pipe: the queue it leaves
QueueGet(q) == [q EXCEPT !.pipe = Tail(@)]

\* the feeder thread of the putting process writes the oldest buffered item
\* to the pipe; the write waits while the pipe is full
CanFeed(q) == q.buf # <<>> /\ Len(q.pipe) < PipeCap

QueueFeed(q) == [buf |-> Tail(q.buf), pipe |-> Append(q.pipe, Head(q.buf))]

-----------------------------------------------------------------------------
(* UserData process *)

\* run, first step: _read_users_data() reads and parses the whole file
UserDataRead ==
    /\ srcPc = "read"
    /\ LET r == _read_users_data(userdata_file)
       IN  IF r.ok
           THEN /\ srcData' = r.val
                /\ srcPc' = "put"
                /\ UNCHANGED <<exitcode, errors>>
           ELSE /\ srcPc' = "done"
                /\ exitcode' = [exitcode EXCEPT !["userdata"] = r.code]
                /\ errors' = errors \cup {r.err}
                /\ UNCHANGED srcData
    /\ UNCHANGED <<args, config_file, config, fpTie, clock, userdata_file, srcIdx, userdata_queue,
                   calcPc, held, result, export_queue, expPc, export_file, mainPc>>

\* run, loop body: self.userdata_queue.put(item)
UserDataPut ==
    /\ srcPc = "put"
    /\ srcIdx <= Len(srcData)
    /\ userdata_queue' = QueuePut(userdata_queue, srcData[srcIdx])
    /\ srcIdx' = srcIdx + 1
    /\ UNCHANGED <<args, config_file, config, fpTie, clock, userdata_file, srcPc, srcData, calcPc,
                   held, result, export_queue, expPc, export_file, mainPc,
                   exitcode, errors>>

\* feeder thread of userdata_queue
UserDataFeed ==
    /\ CanFeed(userdata_queue)
    /\ userdata_queue' = QueueFeed(userdata_queue)
    /\ UNCHANGED <<args, config_file, config, fpTie, clock, userdata_file, srcPc, srcData, srcIdx,
                   calcPc, held, result, export_queue, expPc, export_file,
                   mainPc, exitcode, errors>>

\* run returns; the process ends once its feeder thread has written every
\* buffered item to the pipe
UserDataExit ==
    /\ srcPc = "put"
    /\ srcIdx > Len(srcData)
    /\ userdata_queue.buf = <<>>
    /\ srcPc' = "done"
    /\ exitcode' = [exitcode EXCEPT !["userdata"] = 0]
    /\ UNCHANGED <<args, config_file, config, fpTie, clock, userdata_file, srcData, srcIdx,
                   userdata_queue, calcPc, held, result, export_queue, expPc,
                   export_file, mainPc, errors>>

-----------------------------------------------------------------------------
(* IncomeTaxCalculator process *)

\* run: userdata_queue.get(timeout=1) returns an item
CalculatorGet ==
    /\ calcPc = "get"
    /\ userdata_queue.pipe # <<>>
    /\ held' = QueueFront(userdata_queue)
    /\ userdata_queue' = QueueGet(userdata_queue)
    /\ calcPc' = "calculate"
    /\ UNCHANGED <<args, config_file, config, fpTie, clock, userdata_file, srcPc, srcData, srcIdx,
                   result, export_queue, expPc, export_file, mainPc, exitcode,
                   errors>>

\* run: userdata_queue.get(timeout=1) raises queue.Empty, run returns
CalculatorTimeout ==
    /\ calcPc = "get"
    /\ userdata_queue.pipe = <<>>
    /\ calcPc' = "exit"
    /\ UNCHANGED <<args, config_file, config, fpTie, clock, userdata_file, srcPc, srcData, srcIdx,
                   userdata_queue, held, result, export_queue, expPc,
                   export_file, mainPc, exitcode, errors>>

\* run: result = self.calculate(employee_id, income); export_queue.put(result).
\* A configuration key that is missing or not a number prints
\* 'Parameter Error' and calls exit() inside calculate.
CalculatorCalculate ==
    /\ calcPc = "calculate"
    /\ \E now \in clock..MaxClock :
         LET r == calculate(held[1], held[2], now)
         IN  /\ clock' = now
             /\ result' = r
             /\ IF r.ok
                THEN /\ export_queue' = QueuePut(export_queue, r.val)
                     /\ calcPc' = "get"
                     /\ UNCHANGED errors
                ELSE /\ errors' = errors \cup {"config"}
                     /\ calcPc' = "exit"
                     /\ UNCHANGED export_queue
    /\ UNCHANGED <<args, config_file, config, fpTie, userdata_file, srcPc, srcData, srcIdx,
                   userdata_queue, held, expPc, export_file, mainPc, exitcode>>

\* feeder thread of export_queue
CalculatorFeed ==
    /\ CanFeed(export_queue)
    /\ export_queue' = QueueFeed(export_queue)
    /\ UNCHANGED <<args, config_file, config, fpTie, clock, userdata_file, srcPc, srcData, srcIdx,
                   userdata_queue, calcPc, held, result, expPc, export_file,
                   mainPc, exitcode, errors>>

\* the process ends (after return or exit(), both exit code 0) once its
\* feeder thread has written every buffered row to the pipe
CalculatorExit ==
    /\ calcPc = "exit"
    /\ export_queue.buf = <<>>
    /\ calcPc' = "done"
    /\ exitcode' = [exitcode EXCEPT !["calculator"] = 0]
    /\ UNCHANGED <<args, config_file, config, fpTie, clock, userdata_file, srcPc, srcData, srcIdx,
                   userdata_queue, held, result, export_queue, expPc,
                   export_file, mainPc, errors>>

-----------------------------------------------------------------------------
(* IncomeTaxExporter process *)

\* run: item = export_queue.get(timeout=1); self.writer.writerow(item)
ExporterWrite ==
    /\ expPc = "get"
    /\ export_queue.pipe # <<>>
    /\ export_file' = Append(export_file, QueueFront(export_queue))
    /\ export_queue' = QueueGet(export_queue)
    /\ UNCHANGED <<args, config_file, config, fpTie, clock, userdata_file, srcPc, srcData, srcIdx,
                   userdata_queue, calcPc, held, result, expPc, mainPc,
                   exitcode, errors>>

\* run: export_queue.get(timeout=1) raises queue.Empty; the file is closed
\* and run returns
ExporterTimeout ==
    /\ expPc = "get"
    /\ export_queue.pipe = <<>>
    /\ expPc' = "done"
    /\ exitcode' = [exitcode EXCEPT !["exporter"] = 0]
    /\ UNCHANGED <<args, config_file, config, fpTie, clock, userdata_file, srcPc, srcData, srcIdx,
                   userdata_queue, calcPc, held, result, export_queue,
                   export_file, mainPc, errors>>

-----------------------------------------------------------------------------
(* Main process *)

JoinTarget(pc) ==
    CASE pc = "join_userdata"   -> "userdata"
      [] pc = "join_calculator" -> "calculator"
      [] pc = "join_exporter"   -> "exporter"

AfterJoin(pc) ==
    CASE pc = "join_userdata"   -> "join_calculator"
      [] pc = "join_calculator" -> "join_exporter"
      [] pc = "join_exporter"   -> "done"

\* userdata.join(); calculator.join(); exporter.join(); then the script ends
\* with exit code 0, whatever the exit codes of the children
MainJoin ==
    /\ mainPc # "done"
    /\ exitcode[JoinTarget(mainPc)] # -1
    /\ mainPc' = AfterJoin(mainPc)
    /\ exitcode' = IF mainPc' = "done" THEN [exitcode EXCEPT !["main"] = 0]
                   ELSE exitcode
    /\ UNCHANGED <<args, config_file, config, fpTie, clock, userdata_file, srcPc, srcData, srcIdx,
                   userdata_queue, calcPc, held, result, export_queue, expPc,
                   export_file, errors>>

-----------------------------------------------------------------------------
(* The pipeline *)

Next ==
    \/ UserDataRead
    \/ UserDataPut
    \/ UserDataFeed
    \/ UserDataExit
    \/ CalculatorGet
    \/ CalculatorTimeout
    \/ CalculatorCalculate
    \/ CalculatorFeed
    \/ CalculatorExit
    \/ ExporterWrite
    \/ ExporterTimeout
    \/ MainJoin

Spec == Init /\ [][Next]_vars

-----------------------------------------------------------------------------
(* The arithmetic on its own: calculate is called with one income after *)
(* another under a fixed configuration                                   *)

CalcInit ==
    /\ \E run \in CalcRuns :
         /\ args = run.args
         /\ config_file = run.config_file
    /\ config = _read_config(args, config_file)
    /\ fpTie \in [Fields -> BOOLEAN]
    /\ clock = 0
    /\ userdata_file = <<>>
    /\ srcPc = "read"
    /\ srcData = <<>>
    /\ srcIdx = 1
    /\ userdata_queue = EmptyQueue
    /\ calcPc = "calculate"
    /\ held = <<>>
    /\ result = <<>>
    /\ export_queue = EmptyQueue
    /\ expPc = "get"
    /\ export_file = <<>>
    /\ mainPc = "join_userdata"
    /\ exitcode = [p \in Processes |-> -1]
    /\ errors = {}

\* self.calculate(employee_id, income)
CalculateCall ==
    /\ calcPc = "calculate"
    /\ \E income \in CalcIncomes, now \in clock..MaxClock :
         /\ held' = <<"a", income>>
         /\ result' = calculate("a", income, now)
         /\ clock' = now
    /\ UNCHANGED <<args, config_file, config, fpTie, userdata_file, srcPc, srcData, srcIdx,
                   userdata_queue, calcPc, export_queue, expPc, export_file,
                   mainPc, exitcode, errors>>

CalcNext == CalculateCall

CalcSpec == CalcInit /\ [][CalcNext]_vars

-----------------------------------------------------------------------------
(* Properties of the pipeline (checked under Spec) *)

\* a line that has not two fields, or whose second field is not an integer
MalformedLine(line) == Len(line) # 2 \/ line[2] \notin DOMAIN IntValue

InputMalformed == \E i \in 1..Len(userdata_file) : MalformedLine(userdata_file[i])

\* a required key is missing from the profile, or its value is not a number
ConfigMalformed ==
    \E k \in ConfigKeys : k \notin DOMAIN config \/ config[k] \notin DOMAIN FloatValue

EmployeeIds == { line[1] : line \in Lines }

\* how many elements of the sequence q satisfy id(q[i]) = e
InputCount(e) == Cardinality({ i \in 1..Len(userdata_file) : userdata_file[i][1] = e })
OutputCount(e) == Cardinality({ i \in 1..Len(export_file) : export_file[i].employee_id = e })

SourceDone == srcPc = "done"
WorkerDone == calcPc = "done"
SinkDone == expPc = "done"
QueueEmpty(q) == q.buf = <<>> /\ q.pipe = <<>>

\* C1: for a well-formed input (and configuration), once the source, the
\* worker and the sink have finished, every employee_id is written exactly
\* as many times as it was read.
C1_NoRecordLost ==
    ( /\ ~InputMalformed
      /\ ~ConfigMalformed
      /\ SourceDone /\ WorkerDone /\ SinkDone )
    => \A e \in EmployeeIds : OutputCount(e) = InputCount(e)

\* C2: the sink has returned only if the output queue is empty and the
\* worker has finished.
C2_SinkExitsLast ==
    SinkDone => (QueueEmpty(export_queue) /\ WorkerDone)

\* C3: the worker's run has returned only if the input queue is empty and
\* the source has finished putting its records.
C3_WorkerExitsAfterSource ==
    calcPc \in {"exit", "done"} => (QueueEmpty(userdata_queue) /\ SourceDone)

\* C4: no stage waits forever: a state in which no process can take a step
\* is one where the source, the worker, the sink and the main process have
\* all finished.
C4_NoStageWaitsForever ==
    (~ENABLED Next) =>
        (SourceDone /\ WorkerDone /\ SinkDone /\ mainPc = "done")

\* s is t with some elements left out, the rest in the same order
RECURSIVE IsSubseq(_, _)
IsSubseq(s, t) ==
    IF s = <<>> THEN TRUE
    ELSE IF t = <<>> THEN FALSE
    ELSE IF Head(s) = Head(t) THEN IsSubseq(Tail(s), Tail(t))
    ELSE IsSubseq(s, Tail(t))

\* the (employee_id, income) pairs written
WrittenRecords == [i \in 1..Len(export_file) |->
                      <<export_file[i].employee_id, export_file[i].income>>]

\* the input lines with the income converted
InputPairs == [i \in 1..Len(userdata_file) |->
                  <<userdata_file[i][1], IntValue[userdata_file[i][2]]>>]

\* C5: with the one worker, the records written are in the relative order
\* they have in the input: the written file is the input with some records
\* left out.
C5_OrderPreserved ==
    ~InputMalformed => IsSubseq(WrittenRecords, InputPairs)

\* C5 witness: two different records have been written
C5_Witness ==
    /\ Len(export_file) >= 2
    /\ export_file[1].employee_id # export_file[2].employee_id

\* C6: if a line of the input fails to parse, no record of the input is ever
\* put on the input queue and no row is ever written.
C6_NoPartialOutput ==
    InputMalformed =>
        /\ srcData = <<>>
        /\ QueueEmpty(userdata_queue)
        /\ held = <<>>
        /\ QueueEmpty(export_queue)
        /\ export_file = <<>>

\* C6 witness: the run has ended for an input whose bad line comes after
\* two good ones
C6_Witness ==
    /\ Len(userdata_file) = 3
    /\ ~MalformedLine(userdata_file[1])
    /\ ~MalformedLine(userdata_file[2])
    /\ MalformedLine(userdata_file[3])
    /\ SourceDone /\ WorkerDone /\ SinkDone /\ mainPc = "done"

\* every record of the input has been written
AllWritten ==
    /\ ~InputMalformed
    /\ \A e \in EmployeeIds : OutputCount(e) = InputCount(e)

\* C7: a run with a malformed record or a malformed configuration does not
\* end in success (exit code 0), and a run ends in success only after all
\* records were processed and written.
C7_FailureIsReported ==
    mainPc = "done" =>
        /\ (InputMalformed \/ ConfigMalformed) => exitcode["main"] # 0
        /\ exitcode["main"] = 0 => AllWritten

\* C8: once the configuration error is raised, the input has not been read,
\* nothing was put on the input queue and the worker has dequeued nothing;
\* and a run with a malformed configuration that has ended has raised it,
\* the run with the empty input included.
C8_ConfigErrorFirst ==
    /\ "config" \in errors =>
           /\ srcPc = "read"
           /\ QueueEmpty(userdata_queue)
           /\ held = <<>>
    /\ (ConfigMalformed /\ mainPc = "done") => "config" \in errors

\* every row calculate has returned so far, oldest first
RowsProduced == export_file \o export_queue.pipe \o export_queue.buf

\* the rows r and s hold the same insurance, tax and net pay
SameAmounts(r, s) ==
    /\ r.social_insurance_money = s.social_insurance_money
    /\ r.tax = s.tax
    /\ r.remain = s.remain

\* C14: the amounts of a row depend on the gross income alone: any two rows
\* produced in a run for the same gross income hold the same insurance, tax
\* and net pay, whatever was processed before or between them and whenever
\* (the time stamp may differ).
C14_RecordIndependent ==
    \A i, j \in 1..Len(RowsProduced) :
        RowsProduced[i].income = RowsProduced[j].income
            => SameAmounts(RowsProduced[i], RowsProduced[j])

\* C14 witness: the same income was processed twice, at different times,
\* with another income processed in between
C14_Witness ==
    /\ Len(RowsProduced) = 3
    /\ RowsProduced[1].income = RowsProduced[3].income
    /\ RowsProduced[1].income # RowsProduced[2].income
    /\ RowsProduced[1].time # RowsProduced[3].time
    /\ SameAmounts(RowsProduced[1], RowsProduced[3])

\* the records the source has put on the input queue so far
Enqueued == srcIdx - 1

QueueLen(q) == Len(q.buf) + Len(q.pipe)

\* the worker holds a record it has dequeued and not yet turned into a row
HeldCount == IF calcPc = "calculate" THEN 1 ELSE 0

\* the row was computed from a well-formed line of the input
FromInput(row) ==
    \E k \in 1..Len(userdata_file) :
        /\ ~MalformedLine(userdata_file[k])
        /\ row.employee_id = userdata_file[k][1]
        /\ row.income = IntValue[userdata_file[k][2]]

\* C16: in every state the records put on the input queue are, each in one
\* place, in the input queue, held by the worker, in the output queue or
\* written: the four counts sum to the number enqueued; and every row
\* written comes from a line of the input.
C16_RecordConservation ==
    /\ Enqueued = QueueLen(userdata_queue) + HeldCount
                    + QueueLen(export_queue) + Len(export_file)
    /\ \A i \in 1..Len(export_file) : FromInput(export_file[i])

-----------------------------------------------------------------------------
(* Properties of the arithmetic (checked under CalcSpec) *)

Max(a, b) == IF a >= b THEN a ELSE b
Min(a, b) == IF a <= b THEN a ELSE b

\* x clamped to [lo, hi]
Clamp(x, lo, hi) == Max(lo, Min(x, hi))

\* every configuration key is present and numeric
ConfigWellFormed == \A k \in ConfigKeys : GetConfig(k).ok

\* calculate has been called and returned a row
Calculated == held # <<>> /\ result # <<>> /\ result.ok

\* cents is the amount m rounded to the nearest cent
RoundedTo(cents, m) ==
    \/ cents = m.c /\ m.f <= 500
    \/ cents = m.c + 1 /\ m.f >= 500

ZeroMoney == [c |-> 0, f |-> 0]

\* the row of the worked scenario: amounts in cents
Scenario(row, insurance, tax, remain) ==
    /\ row.social_insurance_money = insurance
    /\ row.tax = tax
    /\ row.remain = remain

ScenarioConfig ==
    /\ ConfigWellFormed
    /\ social_insurance_baseline_low.val = 3000
    /\ social_insurance_baseline_high.val = 20000
    /\ social_insurance_total_rate.val = 105

\* C9: the row calculate returns for a gross income holds the insurance of
\* the gross income, the tax of (gross - insurance - 3500) and
\* gross - insurance - tax, each rounded to the cent once, from the
\* unrounded amount; with floor 3000, ceiling 20000 and rate 0.105 the rows
\* for 10000, 2000 and 50000 are (1050.00, 535.00, 8415.00),
\* (315.00, 0.00, 1685.00) and (2100.00, 10565.00, 37335.00).
C9_CalculateRow ==
    Calculated =>
      LET gross        == held[2]
          row          == result.val
          insurance    == calc_social_insurance_money(gross).val
          real_income  == gross * 1000 - insurance
          taxable      == real_income - 3500 * 1000
          i            == LookupFrom(taxable, 1)
          tax          == IF i > 0
                          THEN TaxOf(taxable, INCOME_TAX_QUICK_LOOKUP_TABLE[i])
                          ELSE ZeroMoney
          net_pay      == MoneySub(MoneyOfMilli(real_income), tax)
      IN  /\ row.employee_id = held[1]
          /\ row.income = gross
          /\ RoundedTo(row.social_insurance_money, MoneyOfMilli(insurance))
          /\ RoundedTo(row.tax, tax)
          /\ RoundedTo(row.remain, net_pay)
          /\ ScenarioConfig =>
               /\ gross = 10000 => Scenario(row, 105000, 53500, 841500)
               /\ gross = 2000  => Scenario(row, 31500, 0, 168500)
               /\ gross = 50000 => Scenario(row, 210000, 1056500, 3733500)

\* C9 witness: calculate has returned the row for 50000 under the scenario's
\* configuration
C9_Witness ==
    /\ Calculated
    /\ ScenarioConfig
    /\ held[2] = 50000
    /\ result.val.remain = 3733500

\* C10: for a gross income >= 0 and JiShuL <= JiShuH,
\* calc_social_insurance_money is exactly the income clamped to
\* [JiShuL, JiShuH] times the total rate, the two bounds included.
C10_InsuranceIsClampedBase ==
    ( /\ held # <<>>
      /\ held[2] >= 0
      /\ ConfigWellFormed
      /\ social_insurance_baseline_low.val <= social_insurance_baseline_high.val )
    => calc_social_insurance_money(held[2]) =
         Ok(Clamp(held[2], social_insurance_baseline_low.val,
                  social_insurance_baseline_high.val)
            * social_insurance_total_rate.val)

\* C10 witness: calculate was called with an income equal to JiShuH, below a
\* JiShuL < JiShuH, under a non-zero rate
C10_Witness ==
    /\ Calculated
    /\ ConfigWellFormed
    /\ social_insurance_baseline_low.val < social_insurance_baseline_high.val
    /\ social_insurance_total_rate.val > 0
    /\ held[2] = social_insurance_baseline_high.val
    /\ result.val.social_insurance_money * 10 = held[2] * social_insurance_total_rate.val

-----------------------------------------------------------------------------
(* Properties of the tax table (checked under CalcSpec) *)

Brackets == 1..Len(INCOME_TAX_QUICK_LOOKUP_TABLE)

\* the lower bound of bracket i, in thousandths
LowerBound(i) == INCOME_TAX_QUICK_LOOKUP_TABLE[i].start_point * 1000

\* calculate was called with an income whose insurance could be computed
InsuranceKnown == held # <<>> /\ calc_social_insurance_money(held[2]).ok

\* the taxable amount of the income calculate was called with, in thousandths
HeldTaxable ==
    held[2] * 1000 - calc_social_insurance_money(held[2]).val
        - INCOME_TAX_START_POINT * 1000

\* bracket i has the greatest lower bound strictly below the amount t
GreatestBelow(i, t) ==
    /\ LowerBound(i) < t
    /\ \A j \in Brackets : LowerBound(j) < t => LowerBound(j) <= LowerBound(i)

\* C11: for a taxable amount > 0 the bracket the scan selects is the one
\* bracket whose lower bound is the greatest strictly below the amount, so
\* an amount equal to a bracket bound is taxed in the bracket below it; the
\* tax printed is the tax of that bracket.
C11_BracketSelection ==
    (InsuranceKnown /\ HeldTaxable > 0) =>
      LET used == LookupFrom(HeldTaxable, 1)
      IN  /\ used \in Brackets
          /\ GreatestBelow(used, HeldTaxable)
          /\ \A j \in Brackets : GreatestBelow(j, HeldTaxable) => j = used
          /\ \A j \in Brackets :
               (HeldTaxable = LowerBound(j) /\ j < Len(INCOME_TAX_QUICK_LOOKUP_TABLE))
                 => used = j + 1
          /\ Calculated =>
               RoundedTo(result.val.tax,
                         TaxOf(HeldTaxable, INCOME_TAX_QUICK_LOOKUP_TABLE[used]))

\* C11 witness: calculate has returned for a taxable amount exactly on the
\* bound 9000
C11_Witness ==
    /\ Calculated
    /\ HeldTaxable = 9000 * 1000
    /\ result.val.tax = 124500

\* x + y
MoneyAdd(x, y) ==
    LET d == x.f + y.f
    IN  [c |-> x.c + y.c + (d \div 1000), f |-> d % 1000]

\* the part of the amount t that falls inside bracket i, in thousandths
PartInBracket(i, t) ==
    IF t <= LowerBound(i) THEN 0
    ELSE IF i = 1 THEN t - LowerBound(i)
    ELSE Min(t, LowerBound(i - 1)) - LowerBound(i)

\* rate of bracket i times the part of t inside bracket i
MarginalTax(i, t) ==
    LET p == PartInBracket(i, t) * INCOME_TAX_QUICK_LOOKUP_TABLE[i].tax_rate
    IN  [c |-> p \div 1000, f |-> p % 1000]

\* the marginal taxes of the brackets i, i + 1, ... summed
RECURSIVE ProgressiveFrom(_, _)
ProgressiveFrom(i, t) ==
    IF i > Len(INCOME_TAX_QUICK_LOOKUP_TABLE) THEN ZeroMoney
    ELSE MoneyAdd(MarginalTax(i, t), ProgressiveFrom(i + 1, t))

ProgressiveTax(t) == ProgressiveFrom(1, t)

\* C12: for a taxable amount > 0, amount * rate - quick_subtractor of the
\* selected bracket is exactly the progressive tax, the sum over the
\* brackets of the bracket's rate times the part of the amount inside it;
\* the tax printed is that sum rounded to the cent.
C12_QuickSubtractorIsProgressive ==
    (InsuranceKnown /\ HeldTaxable > 0) =>
      /\ TaxOf(HeldTaxable,
               INCOME_TAX_QUICK_LOOKUP_TABLE[LookupFrom(HeldTaxable, 1)])
           = ProgressiveTax(HeldTaxable)
      /\ Calculated => RoundedTo(result.val.tax, ProgressiveTax(HeldTaxable))

\* C12 witness: calculate has returned for a taxable amount in the top
\* bracket that is not a whole number of units
C12_Witness ==
    /\ Calculated
    /\ HeldTaxable > 80000 * 1000
    /\ HeldTaxable % 1000 # 0
    /\ RoundedTo(result.val.tax, ProgressiveTax(HeldTaxable))

\* C13: for a record whose taxable amount is <= 0, zero included, the tax
\* printed is 0.00 and the net pay printed is the real income
\* (gross - insurance) rounded to the cent.
C13_NoTaxAtOrBelowThreshold ==
    (Calculated /\ HeldTaxable <= 0) =>
      /\ result.val.tax = 0
      /\ RoundedTo(result.val.remain,
                   MoneyOfMilli(held[2] * 1000
                                  - calc_social_insurance_money(held[2]).val))

\* C13 witness: calculate has returned for a taxable amount of exactly 0
C13_Witness ==
    /\ Calculated
    /\ HeldTaxable = 0
    /\ result.val.tax = 0
    /\ result.val.remain = INCOME_TAX_START_POINT * 100

-----------------------------------------------------------------------------
(* Properties of the profile selection (checked under CalcSpec) *)

\* the -C value names the section: the two names are equal up to case
NamesSection(name) == args.has_C /\ Upper[args.city] = Upper[name]

\* C15: in every state of the run the profile in use is the named one when
\* -C is given and names a section present in the file, and the default one
\* in every other case (no -C, or a name no section has).
C15_ProfileSelection ==
    IF \E n \in DOMAIN config_file.sections : NamesSection(n)
    THEN \E n \in DOMAIN config_file.sections :
            NamesSection(n) /\ config = SectionProxy(config_file, n)
    ELSE config = config_file.DEFAULT

-----------------------------------------------------------------------------
(* Monotonicity (checked under CalcSpec) *)

\* x <= y
MoneyLeq(x, y) == x.c < y.c \/ (x.c = y.c /\ x.f <= y.f)

\* the tax of the gross income g before it is printed
UnroundedTax(g) ==
    LET t == TaxablePart(RealIncome(g, calc_social_insurance_money(g).val))
        i == LookupFrom(t, 1)
    IN  IF i > 0 THEN TaxOf(t, INCOME_TAX_QUICK_LOOKUP_TABLE[i]) ELSE ZeroMoney

\* the net pay of the gross income g before it is printed
UnroundedNetPay(g) ==
    MoneySub(MoneyOfMilli(RealIncome(g, calc_social_insurance_money(g).val)),
             UnroundedTax(g))

\* JiShuL <= JiShuH and 0 <= total rate < 1
MonotoneParameters ==
    /\ ConfigWellFormed
    /\ social_insurance_baseline_low.val <= social_insurance_baseline_high.val
    /\ social_insurance_total_rate.val >= 0
    /\ social_insurance_total_rate.val < 1000

\* C17: with JiShuL <= JiShuH and 0 <= rate < 1, the unrounded net pay of
\* the income just processed is at least the unrounded net pay of every
\* smaller income, and its tax is not negative.
C17_NetPayMonotone ==
    (MonotoneParameters /\ held # <<>>) =>
      /\ \A a \in CalcIncomes :
            a <= held[2] => MoneyLeq(UnroundedNetPay(a), UnroundedNetPay(held[2]))
      /\ MoneyLeq(ZeroMoney, UnroundedTax(held[2]))
      /\ Calculated => result.val.tax >= 0

\* C17 witness: calculate has returned for the income one unit above the one
\* whose taxable amount is the bracket bound 9000
C17_Witness ==
    /\ Calculated
    /\ MonotoneParameters
    /\ HeldTaxable = 9001 * 1000
    /\ MoneyLeq(UnroundedNetPay(held[2] - 1), UnroundedNetPay(held[2]))
    /\ UnroundedNetPay(held[2] - 1) # UnroundedNetPay(held[2])

=============================================================================
